---- MODULE Spec2Model ----
(***************************************************************************)
(* A model of Generator/Generator.py, the SKIT-to-cppcheck-cfg converter:  *)
(* the line classifiers, the tag composers, the function and allocation    *)
(* block parsers and the driver that shares one cursor (line_no) with      *)
(* them.                                                                   *)
(*                                                                         *)
(* An input line is a sequence of one-character strings, so that strip(),  *)
(* split(), lower(), isdigit() and the prefix regexes are computed as      *)
(* Python computes them.  Text written to out_file is a TLA+ string; out   *)
(* is the sequence of the strings handed to out_file.write().              *)
(***************************************************************************)
EXTENDS Integers, Sequences, FiniteSets, TLC

VARIABLES
    lines,        \* Parser.lines: the input, a sequence of lines
    line_no,      \* Parser.line_no: the shared cursor (0-based)
    out,          \* out_file: the strings written so far, one per write()
    pc,           \* where control is: begin, driver, function, alloc, advance, done, failed
    error,        \* the exception that ended the pass: none, ParseError, IndexError
    line,         \* parse_line's argument: the line the driver dispatched last
    composed,     \* composed_function / composed_alloc: the open block's buffer
    end_alloc,    \* parse_alloc's end_alloc: the closing tag of the open block
    has_alloc,    \* parse_alloc's has_alloc
    has_dealloc,  \* parse_alloc's has_dealloc
    reads         \* per input line, the routines that read it (lines[line_no])

vars == <<lines, line_no, out, pc, error, line, composed, end_alloc,
          has_alloc, has_dealloc, reads>>

-----------------------------------------------------------------------------
(* Python's str operations on sequences of characters.                     *)

Digits == {"0", "1", "2", "3", "4", "5", "6", "7", "8", "9"}

\* The whitespace that occurs in the inputs: blank and tab
Whitespace == {" ", "\t"}

UpperCase == <<"A", "B", "C", "D", "E", "F", "G", "H", "I", "J", "K", "L", "M",
               "N", "O", "P", "Q", "R", "S", "T", "U", "V", "W", "X", "Y", "Z">>

LowerCase == <<"a", "b", "c", "d", "e", "f", "g", "h", "i", "j", "k", "l", "m",
               "n", "o", "p", "q", "r", "s", "t", "u", "v", "w", "x", "y", "z">>

LowerChar(c) ==
    IF \E i \in 1..Len(UpperCase) : UpperCase[i] = c
    THEN LowerCase[CHOOSE i \in 1..Len(UpperCase) : UpperCase[i] = c]
    ELSE c

\* str.lower()
Lower(s) == [i \in 1..Len(s) |-> LowerChar(s[i])]

\* str.isdigit(): non-empty and every character a digit
IsDigit(s) == Len(s) > 0 /\ \A i \in 1..Len(s) : s[i] \in Digits

RECURSIVE LStrip(_)
LStrip(s) == IF s # <<>> /\ Head(s) \in Whitespace THEN LStrip(Tail(s)) ELSE s

RECURSIVE RStrip(_)
RStrip(s) ==
    IF s # <<>> /\ s[Len(s)] \in Whitespace THEN RStrip(SubSeq(s, 1, Len(s) - 1)) ELSE s

\* str.strip()
Strip(s) == RStrip(LStrip(s))

\* The text of a sequence of characters
RECURSIVE Str(_)
Str(s) == IF s = <<>> THEN "" ELSE Head(s) \o Str(Tail(s))

\* The position of the first sep in s at or after from; 0 when there is none
RECURSIVE Find(_, _, _)
Find(s, sep, from) ==
    IF from > Len(s) THEN 0
    ELSE IF s[from] = sep THEN from
    ELSE Find(s, sep, from + 1)

\* str.split(sep, maxsplit): at most max splits (max < 0: no limit); adjacent
\* separators give empty fields, and the last field keeps the rest
RECURSIVE SplitMax(_, _, _)
SplitMax(s, sep, max) ==
    LET i == Find(s, sep, 1)
    IN  IF max = 0 \/ i = 0 THEN <<s>>
        ELSE <<SubSeq(s, 1, i - 1)>> \o SplitMax(SubSeq(s, i + 1, Len(s)), sep, max - 1)

\* str.split(sep)
Split(s, sep) == SplitMax(s, sep, -1)

\* The position of the first whitespace character of s; 0 when there is none
RECURSIVE FindSpace(_, _)
FindSpace(s, from) ==
    IF from > Len(s) THEN 0
    ELSE IF s[from] \in Whitespace THEN from
    ELSE FindSpace(s, from + 1)

\* str.split(maxsplit=max) with no separator: fields are separated by runs of
\* whitespace, leading whitespace is skipped, and after max splits the rest of
\* the line (without its leading whitespace) is the last field
RECURSIVE SplitWhitespace(_, _)
SplitWhitespace(s, max) ==
    LET t == LStrip(s)
        i == FindSpace(t, 1)
    IN  IF t = <<>> THEN <<>>
        ELSE IF max = 0 THEN <<t>>
        ELSE IF i = 0 THEN <<t>>
        ELSE <<SubSeq(t, 1, i - 1)>> \o SplitWhitespace(SubSeq(t, i + 1, Len(t)), max - 1)

\* regex.match("^" + prefix, s, regex.IGNORECASE) for a literal lower-case prefix
MatchPrefix(prefix, s) ==
    /\ Len(s) >= Len(prefix)
    /\ Str(Lower(SubSeq(s, 1, Len(prefix)))) = prefix

-----------------------------------------------------------------------------
(* Indentation and the classifiers.                                        *)

\* Indentation.FUNCTION, a member of a str-mixin enum: its value, which is what
\* both "+" and str.format put into the text under the Python of the code's
\* time (from Python 3.11 on, format() gives the member's name instead)
IndentFunction == "    "

IndentFunctionEntry == "        "

determine_line_type(l) ==
    IF Len(l) = 0 THEN "EMPTY"
    ELSE IF Head(l) = "#" THEN "COMMENT_INCLUDE"
    ELSE IF Head(l) = ";" THEN "COMMENT_EXCLUDE"
    ELSE IF MatchPrefix("fn", l) THEN "FUNCTION"
    ELSE IF MatchPrefix("mem", l) THEN "MEM_ALLOC"
    ELSE IF MatchPrefix("res", l) THEN "RES_ALLOC"
    ELSE IF MatchPrefix("pod", l) THEN "PODTYPE"
    ELSE IF MatchPrefix("def", l) THEN "DEFINE"
    ELSE IF MatchPrefix("con", l) THEN "CONTAINER"
    ELSE "ERROR"

\* "ParseError" stands for the raise at the end of the classifier
determine_allocation_line_type(l) ==
    IF Len(l) = 0 THEN "EMPTY"
    ELSE IF MatchPrefix("alloc", l) THEN "ALLOC_FUNC"
    ELSE IF MatchPrefix("dealloc", l) THEN "DEALLOC_FUNC"
    ELSE "ParseError"

\* determine_function_line_type as a classifier that lets comments end a
\* block like a blank line does would have it: the fault against which the
\* rejection of comments inside blocks (C16) is checked
determine_function_line_type_ending_at_comments(l) ==
    IF Len(l) = 0 THEN "EMPTY"
    ELSE IF Head(l) \in {"#", ";"} THEN "EMPTY"
    ELSE IF MatchPrefix("pure", l) THEN "PURE"
    ELSE IF MatchPrefix("const", l) THEN "CONST"
    ELSE IF MatchPrefix("ur", l) THEN "USE_RETVAL"
    ELSE IF MatchPrefix("rv", l) THEN "RETURN_TYPE"
    ELSE IF MatchPrefix("li", l) THEN "LEAK_IGNORE"
    ELSE IF MatchPrefix("nr", l) THEN "NORETURN"
    ELSE IF Head(l) \in Digits THEN "ARGUMENT"
    ELSE "ParseError"

determine_function_line_type(l) ==
    IF Len(l) = 0 THEN "EMPTY"
    ELSE IF MatchPrefix("pure", l) THEN "PURE"
    ELSE IF MatchPrefix("const", l) THEN "CONST"
    ELSE IF MatchPrefix("ur", l) THEN "USE_RETVAL"
    ELSE IF MatchPrefix("rv", l) THEN "RETURN_TYPE"
    ELSE IF MatchPrefix("li", l) THEN "LEAK_IGNORE"
    ELSE IF MatchPrefix("nr", l) THEN "NORETURN"
    ELSE IF Head(l) \in Digits THEN "ARGUMENT"
    ELSE "ParseError"

determine_argument_attribute_type(a) ==
    IF MatchPrefix("fmt", a) THEN "FORMAT_STR"
    ELSE IF MatchPrefix("min", a) THEN "MIN_SIZE"
    ELSE IF MatchPrefix("nb", a) THEN "NOT_BOOL"
    ELSE IF MatchPrefix("nn", a) THEN "NOT_NULL"
    ELSE IF MatchPrefix("nu", a) THEN "NOT_UNINIT"
    ELSE IF MatchPrefix("s", a) THEN "NULL_TERM_STRING"
    ELSE IF MatchPrefix("v", a) THEN "VALID_RANGE"
    ELSE "ParseError"

\* regex.search("(?<={)[^}]*(?=})", l): the text between the first "{" and the
\* first "}" after it; found is FALSE when the search returns None
retrieve_match_between_braces(l) ==
    LET open == Find(l, "{", 1)
        close == IF open = 0 THEN 0 ELSE Find(l, "}", open + 1)
    IN  IF close = 0 THEN [found |-> FALSE, text |-> <<>>]
        ELSE [found |-> TRUE, text |-> SubSeq(l, open + 1, close - 1)]

-----------------------------------------------------------------------------
(* The tag composers.  A composer returns [err, str]: err is "none" and    *)
(* str the composed text, or err names the exception it raised.            *)

Ok(text) == [err |-> "none", str |-> text]

Raised(kind) == [err |-> kind, str |-> ""]

\* Creates a <returnValue> tag for a function
compose_return_value_string(l) ==
    LET tokens == SplitMax(l, " ", 1)
    IN  IF Len(tokens) < 2 THEN Raised("ParseError")
        ELSE Ok("<returnValue type=\"" \o Str(tokens[2]) \o "\">\n")

\* Creates a <noreturn> tag for a function
compose_noreturn_string(l) ==
    LET tokens == Split(l, " ")
        operand == Str(Lower(tokens[2]))
    IN  IF Len(tokens) < 2 THEN Raised("ParseError")
        ELSE IF Len(tokens) > 2 THEN Raised("ParseError")
        ELSE IF operand = "t" THEN Ok("<noreturn>true</noreturn>\n")
        ELSE IF operand = "f" THEN Ok("<noreturn>false</noreturn>\n")
        ELSE Raised("ParseError")

\* Creates a <formatstr/> tag for a function argument
compose_formatstr_string(token) ==
    LET specifier_match == retrieve_match_between_braces(token)
        specifier == Str(Lower(specifier_match.text))
    IN  IF Str(Lower(token)) = "fmt" THEN Ok("<formatstr/>")
        ELSE IF ~specifier_match.found THEN Raised("ParseError")
        ELSE IF specifier \notin {"printf", "scanf"} THEN Raised("ParseError")
        ELSE Ok("<formatstr type=\"" \o specifier \o "\"/>")

MinsizeTypes == {"argvalue", "mul", "sizeof", "strlen"}

\* Creates a <minsize/> tag for a function argument.  args[2] of a "mul"
\* specifier with two elements is an index out of range.
compose_minsize_string(token) ==
    LET specifier_match == retrieve_match_between_braces(token)
        items == Split(specifier_match.text, ",")
        args == [i \in 1..Len(items) |-> Lower(Strip(items[i]))]
        args_len == Len(args)
        is_mul_type == Str(args[1]) = "mul"
    IN  IF ~specifier_match.found THEN Raised("ParseError")
        ELSE IF args_len < 2 THEN Raised("ParseError")
        ELSE IF Str(args[1]) \notin MinsizeTypes THEN Raised("ParseError")
        ELSE IF ~is_mul_type /\ args_len > 2 THEN Raised("ParseError")
        ELSE IF is_mul_type /\ args_len > 3 THEN Raised("ParseError")
        ELSE IF ~(\A i \in 2..args_len : IsDigit(args[i])) THEN Raised("ParseError")
        ELSE IF is_mul_type
             THEN IF args_len < 3 THEN Raised("IndexError")
                  ELSE Ok("<minsize type=\"" \o Str(args[1]) \o "\" arg=\"" \o Str(args[2])
                          \o "\" arg2=\"" \o Str(args[3]) \o "\"/>")
        ELSE Ok("<minsize type=\"" \o Str(args[1]) \o "\" arg=\"" \o Str(args[2]) \o "\"/>")

\* Creates a valid range string for a function argument (<valid></valid>)
compose_valid_range_string(token) ==
    LET specifier_match == retrieve_match_between_braces(token)
    IN  IF ~specifier_match.found THEN Raised("ParseError")
        ELSE IF Len(specifier_match.text) = 0 THEN Raised("ParseError")
        ELSE Ok("<valid>" \o Str(specifier_match.text) \o "</valid>")

\* One pass of compose_argument_string's loop: the fragment of one attribute token
compose_attribute_string(token) ==
    LET attribute_type == determine_argument_attribute_type(token)
    IN  CASE attribute_type = "ParseError" -> Raised("ParseError")
          [] attribute_type = "FORMAT_STR" -> compose_formatstr_string(token)
          [] attribute_type = "MIN_SIZE" -> compose_minsize_string(token)
          [] attribute_type = "NOT_BOOL" -> Ok("<not-bool/>")
          [] attribute_type = "NOT_NULL" -> Ok("<not-null/>")
          [] attribute_type = "NOT_UNINIT" -> Ok("<not-uninit/>")
          [] attribute_type = "NULL_TERM_STRING" -> Ok("<strz/>")
          [] attribute_type = "VALID_RANGE" -> compose_valid_range_string(token)

\* compose_attributes as a composer that merges an attribute repeated at once
\* into one element would have it: the fault against which one fragment per
\* token (C14) is checked
RECURSIVE compose_attributes_merging(_, _)
compose_attributes_merging(tokens, argument) ==
    IF tokens = <<>> THEN Ok(argument)
    ELSE IF Len(tokens) >= 2 /\ tokens[1] = tokens[2]
         THEN compose_attributes_merging(Tail(tokens), argument)
    ELSE LET fragment == compose_attribute_string(Head(tokens))
         IN  IF fragment.err # "none" THEN fragment
             ELSE compose_attributes_merging(Tail(tokens), argument \o fragment.str)

\* compose_argument_string's loop over tokens[1:], left to right: the first
\* exception ends it
RECURSIVE compose_attributes(_, _)
compose_attributes(tokens, argument) ==
    IF tokens = <<>> THEN Ok(argument)
    ELSE LET fragment == compose_attribute_string(Head(tokens))
         IN  IF fragment.err # "none" THEN fragment
             ELSE compose_attributes(Tail(tokens), argument \o fragment.str)

\* Creates an argument string for a function definition
compose_argument_string(l) ==
    LET tokens == Split(l, " ")
        result == compose_attributes(Tail(tokens), "<arg nr=\"" \o Str(tokens[1]) \o "\">")
    IN  IF result.err # "none" THEN result
        ELSE Ok(result.str \o "</arg>\n")

\* parse_function's dispatch of one entry line on its type: entry_str
function_entry_string(line_type, next_line) ==
    CASE line_type = "PURE" -> Ok("<pure/>\n")
      [] line_type = "CONST" -> Ok("<const/>\n")
      [] line_type = "LEAK_IGNORE" -> Ok("<leak-ignore/>\n")
      [] line_type = "USE_RETVAL" -> Ok("<use-retval/>\n")
      [] line_type = "RETURN_TYPE" -> compose_return_value_string(next_line)
      [] line_type = "NORETURN" -> compose_noreturn_string(next_line)
      [] line_type = "ARGUMENT" -> compose_argument_string(next_line)

-----------------------------------------------------------------------------
(* The single-line constructs: podtype and define.                         *)

\* parse_podtype's nested handle_argument; lower_sign is the variable of the
\* enclosing call that the nested function reads
handle_argument(token, lower_sign) ==
    IF Str(token) \notin {"s", "u"}
    THEN IF IsDigit(token) THEN Ok(" size=\"" \o Str(token) \o "\"")
         ELSE Raised("ParseError")
    ELSE Ok(" sign=\"" \o Str(lower_sign) \o "\"")

\* Parses a podtype definition tag: what it writes, or what it raises
parse_podtype(l) ==
    LET tokens == Split(l, " ")
        tokens_len == Len(tokens)
        podtype_str == IndentFunction \o "<podtype name=\"" \o Str(tokens[2]) \o "\""
        lower_sign == Lower(tokens[3])
        first == IF tokens_len >= 3 THEN handle_argument(lower_sign, lower_sign) ELSE Ok("")
        second == IF tokens_len = 4 THEN handle_argument(tokens[4], lower_sign) ELSE Ok("")
    IN  IF tokens_len < 2 THEN Raised("ParseError")
        ELSE IF tokens_len > 4 THEN Raised("ParseError")
        ELSE IF first.err # "none" THEN first
        ELSE IF second.err # "none" THEN second
        ELSE Ok(podtype_str \o first.str \o second.str \o "/>\n")

\* str.replace(c, by) on a sequence of characters
RECURSIVE Replace(_, _, _)
Replace(s, c, by) ==
    IF s = <<>> THEN <<>>
    ELSE (IF Head(s) = c THEN by ELSE <<Head(s)>>) \o Replace(Tail(s), c, by)

\* escape as a replacement that handles "&" after the other characters would
\* have it, so that the "&" of the entities it has just written is replaced
\* again: the fault against which the escaping of a define value (C13) is
\* checked
escape_ampersand_last(data) ==
    LET gt == Replace(data, ">", <<"&", "g", "t", ";">>)
        lt == Replace(gt, "<", <<"&", "l", "t", ";">>)
        apos == Replace(lt, "'", <<"&", "a", "p", "o", "s", ";">>)
        quot == Replace(apos, "\"", <<"&", "q", "u", "o", "t", ";">>)
    IN  Replace(quot, "&", <<"&", "a", "m", "p", ";">>)

\* xml.sax.saxutils.escape(data, entities={"'": "&apos;", "\"": "&quot;"}):
\* "&", ">" and "<" are replaced first, in this order, then the entities
escape(data) ==
    LET amp == Replace(data, "&", <<"&", "a", "m", "p", ";">>)
        gt == Replace(amp, ">", <<"&", "g", "t", ";">>)
        lt == Replace(gt, "<", <<"&", "l", "t", ";">>)
        apos == Replace(lt, "'", <<"&", "a", "p", "o", "s", ";">>)
    IN  Replace(apos, "\"", <<"&", "q", "u", "o", "t", ";">>)

\* Parses a define tag: what it writes, or what it raises
parse_define(l) ==
    LET tokens == SplitWhitespace(l, 2)
        define_name == Str(tokens[2])
        define_value == Str(Strip(escape(tokens[3])))
    IN  IF Len(tokens) < 3 THEN Raised("ParseError")
        ELSE Ok(IndentFunction \o "<define name=\"" \o define_name \o "\" value=\""
                \o define_value \o "\"/>\n")

-----------------------------------------------------------------------------
(* The parser as a state machine.  pc is the place of control:             *)
(*   begin     parse_lines is entered, nothing is written yet              *)
(*   driver    at the test of parse_lines' while loop                      *)
(*   function  at the top of parse_function's while loop                   *)
(*   alloc     at the top of parse_alloc's while loop                      *)
(*   advance   parse_line has returned; "self.line_no += 1" is next        *)
(*   done      parse_lines has returned                                    *)
(*   failed    an exception left parse_lines and ended the process         *)

block == <<composed, end_alloc, has_alloc, has_dealloc>>

\* The locals of a block parser that is not running
NoBlock ==
    /\ composed' = ""
    /\ end_alloc' = ""
    /\ has_alloc' = FALSE
    /\ has_dealloc' = FALSE

\* Raise as a parser that reports the exception and goes on with the next
\* line would have it: the fault against which fail-fast (C3) is checked
RaiseAndContinue(kind) ==
    /\ pc' = "advance"
    /\ error' = kind
    /\ out' = out
    /\ UNCHANGED block

\* Raise as a driver that closes the document on every exit path would have
\* it: the fault against which the epilogue of successful passes only (C17) is
\* checked
RaiseWithEpilogue(kind) ==
    /\ pc' = "failed"
    /\ error' = kind
    /\ out' = Append(out, "</def>")
    /\ UNCHANGED block

\* An exception leaves parse_lines: the with statement closes the files, the
\* handler reports ParseError (any other exception is a traceback) and the
\* process exits
Raise(kind) ==
    /\ pc' = "failed"
    /\ error' = kind
    /\ out' = out
    /\ UNCHANGED block

\* out_file.write(text), after which parse_line returns
Write(text) ==
    /\ out' = Append(out, text)
    /\ pc' = "advance"
    /\ error' = error
    /\ NoBlock

\* parse_line returns having written nothing
Skip ==
    /\ out' = out
    /\ pc' = "advance"
    /\ error' = error
    /\ NoBlock

\* A single-line parser's outcome: the write, or the exception
Emit(result) == IF result.err = "none" THEN Write(result.str) ELSE Raise(result.err)

write_file_begin == "<?xml version=\"1.0\"?>\n<def format=\"2\">\n"

write_file_end == "</def>"

-----------------------------------------------------------------------------
(* The driver.                                                             *)

\* parse_lines, before its loop: the prologue
WriteFileBegin ==
    /\ pc = "begin"
    /\ out' = Append(out, write_file_begin)
    /\ pc' = "driver"
    /\ UNCHANGED <<lines, line_no, error, line, block, reads>>

\* FunctionHeader as a parser that streams would have it, the opening tag
\* written as soon as the header is read: the fault against which the one
\* write of a block at its close (C18) is checked
FunctionHeaderStreaming(l) ==
    LET function_header == Split(l, " ")
    IN  IF Len(function_header) # 2 THEN Raise("ParseError")
        ELSE /\ out' = Append(out, IndentFunction \o "<function name=\""
                                   \o Str(function_header[2]) \o "\">\n")
             /\ composed' = ""
             /\ pc' = "function"
             /\ UNCHANGED <<error, end_alloc, has_alloc, has_dealloc>>

\* FunctionHeader as a parser that only asks for a name and ignores what
\* follows it would have it: the fault against which the two-field header
\* (C15) is checked
FunctionHeaderAtLeastTwo(l) ==
    LET function_header == Split(l, " ")
    IN  IF Len(function_header) < 2 THEN Raise("ParseError")
        ELSE /\ composed' = IndentFunction \o "<function name=\"" \o Str(function_header[2]) \o "\">\n"
             /\ pc' = "function"
             /\ UNCHANGED <<out, error, end_alloc, has_alloc, has_dealloc>>

\* parse_function up to its loop: the header must be "<tag> <name>"
FunctionHeader(l) ==
    LET function_header == Split(l, " ")
    IN  IF Len(function_header) # 2 THEN Raise("ParseError")
        ELSE /\ composed' = IndentFunction \o "<function name=\""
                            \o Str(function_header[2]) \o "\">\n"
             /\ pc' = "function"
             /\ UNCHANGED <<out, error, end_alloc, has_alloc, has_dealloc>>

\* parse_alloc up to its loop: the opening and the closing tag of the block
AllocHeader(alloc_type) ==
    /\ composed' = IndentFunction
                   \o (IF alloc_type = "MEM_ALLOC" THEN "<memory>\n" ELSE "<resource>\n")
    /\ end_alloc' = IndentFunction
                    \o (IF alloc_type = "MEM_ALLOC" THEN "</memory>\n" ELSE "</resource>\n")
    /\ has_alloc' = FALSE
    /\ has_dealloc' = FALSE
    /\ pc' = "alloc"
    /\ UNCHANGED <<out, error>>

\* One pass of parse_lines' loop up to the return of parse_line, or up to the
\* loop of the block parser that parse_line calls
ParseLine ==
    /\ pc = "driver"
    /\ line_no < Len(lines)
    /\ LET l == lines[line_no + 1]
           line_type == determine_line_type(l)
       IN  /\ line' = l
           /\ reads' = [reads EXCEPT ![line_no + 1] = Append(@, "parse_lines")]
           /\ CASE line_type = "ERROR" -> Raise("ParseError")
                [] line_type = "EMPTY" -> Write("\n")
                [] line_type = "FUNCTION" -> FunctionHeader(l)
                [] line_type = "COMMENT_INCLUDE" ->
                       Write(IndentFunction \o "<!-- " \o Str(Strip(Tail(l))) \o " -->\n")
                [] line_type = "COMMENT_EXCLUDE" -> Skip
                [] line_type \in {"MEM_ALLOC", "RES_ALLOC"} -> AllocHeader(line_type)
                [] line_type = "PODTYPE" -> Emit(parse_podtype(l))
                [] line_type = "DEFINE" -> Emit(parse_define(l))
                [] line_type = "CONTAINER" -> Skip
    /\ UNCHANGED <<lines, line_no>>

\* DriverAdvance as a driver that adds its advance only when the delegate left
\* the cursor alone would have it: the fault against which the driver's
\* unconditional advance (C4) and the single read of every line (C5) are checked
DriverAdvanceUnlessAdvanced ==
    /\ pc = "advance"
    /\ line_no' = IF determine_line_type(line) \in {"FUNCTION", "MEM_ALLOC", "RES_ALLOC"}
                  THEN line_no
                  ELSE line_no + 1
    /\ pc' = "driver"
    /\ line' = <<>>
    /\ UNCHANGED <<lines, out, error, block, reads>>

\* parse_lines: "self.line_no += 1" after parse_line returned
DriverAdvance ==
    /\ pc = "advance"
    /\ line_no' = line_no + 1
    /\ pc' = "driver"
    /\ line' = <<>>
    /\ UNCHANGED <<lines, out, error, block, reads>>

\* parse_lines, after its loop: the epilogue
WriteFileEnd ==
    /\ pc = "driver"
    /\ line_no >= Len(lines)
    /\ out' = Append(out, write_file_end)
    /\ pc' = "done"
    /\ UNCHANGED <<lines, line_no, error, line, block, reads>>

-----------------------------------------------------------------------------
(* The function block parser.                                              *)

\* FunctionClose as a parser that drops a function without entries would have
\* it: the fault against which the element of an empty function block (C19) is
\* checked
FunctionCloseUnlessEmpty ==
    IF reads[line_no + 1] = <<"parse_lines">> THEN Skip
    ELSE Write(composed \o IndentFunction \o "</function>\n")

\* The end of parse_function: the closing tag and the one write of the block
FunctionClose == Write(composed \o IndentFunction \o "</function>\n")

\* FunctionEof as a parser that requires the terminating blank line would have
\* it: the fault against which the close at end-of-input (C6) is checked
FunctionEofRaises == Raise("ParseError")

\* "Hit the end of the file without a newline": break
FunctionEof == FunctionClose

\* The rest of a pass of parse_function's loop, on the line at the cursor n
FunctionEntry(n) ==
    LET next_line == Strip(lines[n + 1])
        line_type == determine_function_line_type(next_line)
        entry_str == function_entry_string(line_type, next_line)
    IN  IF line_type = "ParseError" THEN Raise("ParseError")
        ELSE IF line_type = "EMPTY" THEN FunctionClose
        ELSE IF entry_str.err # "none" THEN Raise(entry_str.err)
        ELSE /\ composed' = composed \o IndentFunctionEntry \o entry_str.str
             /\ pc' = "function"
             /\ UNCHANGED <<out, error, end_alloc, has_alloc, has_dealloc>>

\* One pass of parse_function's loop
ParseFunctionStep ==
    /\ pc = "function"
    /\ line_no' = line_no + 1
    /\ IF line_no + 1 >= Len(lines)
       THEN FunctionEof /\ reads' = reads
       ELSE /\ FunctionEntry(line_no + 1)
            /\ reads' = [reads EXCEPT ![line_no + 2] = Append(@, "parse_function")]
    /\ UNCHANGED <<lines, line>>

-----------------------------------------------------------------------------
(* The allocation block parser.                                            *)

\* AllocClose without its has_dealloc test: the fault against which the
\* rejection of incomplete blocks (C1) is checked
AllocCloseAllocOnly ==
    IF ~has_alloc THEN Raise("ParseError")
    ELSE Write(composed \o end_alloc)

\* The end of parse_alloc: both kinds of entry are required, then the closing
\* tag and the one write of the block
AllocClose ==
    IF ~has_alloc THEN Raise("ParseError")
    ELSE IF ~has_dealloc THEN Raise("ParseError")
    ELSE Write(composed \o end_alloc)

\* AllocEof as a parser for which end-of-input inside a block is always an
\* error would have it: the fault against which the close of a complete block
\* at end-of-input (C7) is checked
AllocEofRaises == Raise("ParseError")

\* "Hit the end of the file": an incomplete block raises, a complete one breaks
AllocEof ==
    IF ~has_alloc \/ ~has_dealloc THEN Raise("ParseError")
    ELSE AllocClose

\* alloc_entry_string as a parser without the init form would have it, every
\* alloc entry naming its second field: the fault against which the two forms
\* of the alloc entry (C12) are checked
alloc_entry_string_without_init(line_type, tokens, next_line) ==
    IF Len(tokens) < 2 THEN Raised("IndexError")
    ELSE IF line_type = "ALLOC_FUNC"
    THEN Ok("<alloc init=\"false\">" \o Str(tokens[2]) \o "</alloc>\n")
    ELSE Ok("<dealloc>" \o Str(tokens[2]) \o "</dealloc>\n")

\* The text an alloc or dealloc entry adds to composed_alloc, or the exception:
\* tokens[1] of an entry of one field is an index out of range
alloc_entry_string(line_type, tokens, next_line) ==
    IF line_type = "ALLOC_FUNC"
    THEN IF Len(tokens) < 2 THEN Raised("IndexError")
         ELSE IF Str(tokens[2]) = "init"
              THEN IF Len(tokens) < 3 THEN Raised("ParseError")
                   ELSE Ok("<alloc init=\"true\">" \o Str(tokens[3]) \o "</alloc>\n")
         ELSE Ok("<alloc init=\"false\">" \o Str(tokens[2]) \o "</alloc>\n")
    ELSE IF Len(tokens) < 2 THEN Raised("IndexError")
         ELSE Ok("<dealloc>" \o Str(tokens[2]) \o "</dealloc>\n")

\* The rest of a pass of parse_alloc's loop, on the line at the cursor n
AllocEntry(n) ==
    LET next_line == Strip(lines[n + 1])
        line_type == determine_allocation_line_type(next_line)
        tokens == Split(next_line, " ")
        tokens_len == Len(tokens)
        entry_str == alloc_entry_string(line_type, tokens, next_line)
    IN  IF line_type = "ParseError" THEN Raise("ParseError")
        ELSE IF line_type = "EMPTY" THEN AllocClose
        ELSE IF line_type = "DEALLOC_FUNC" /\ tokens_len > 2 THEN Raise("ParseError")
        ELSE IF line_type = "ALLOC_FUNC" /\ tokens_len > 3 THEN Raise("ParseError")
        ELSE IF entry_str.err # "none" THEN Raise(entry_str.err)
        ELSE /\ composed' = composed \o IndentFunctionEntry \o entry_str.str
             /\ has_alloc' = (has_alloc \/ line_type = "ALLOC_FUNC")
             /\ has_dealloc' = (has_dealloc \/ line_type = "DEALLOC_FUNC")
             /\ pc' = "alloc"
             /\ UNCHANGED <<out, error, end_alloc>>

\* One pass of parse_alloc's loop
ParseAllocStep ==
    /\ pc = "alloc"
    /\ line_no' = line_no + 1
    /\ IF line_no + 1 >= Len(lines)
       THEN AllocEof /\ reads' = reads
       ELSE /\ AllocEntry(line_no + 1)
            /\ reads' = [reads EXCEPT ![line_no + 2] = Append(@, "parse_alloc")]
    /\ UNCHANGED <<lines, line>>

-----------------------------------------------------------------------------
(* The inputs.  Every input is a sequence of lines as in_file.read()        *)
(* .split('\n') gives them.                                                *)

\* The longest input made of block lines
MaxLines == 4

SeqsUpTo(S, n) == UNION {[1..k -> S] : k \in 0..n}

\* The lines of which every input up to MaxLines lines is tried
BlockLines ==
    { <<"f", "n", " ", "a">>,    \* fn a
      <<"m", "e", "m">>,    \* mem
      <<"a", "l", "l", "o", "c", " ", "a">>,    \* alloc a
      <<"d", "e", "a", "l", "l", "o", "c", " ", "b">>,    \* dealloc b
      <<>>,    \* ''
      <<"p", "u", "r", "e">>    \* pure
    }

BlockInputs == SeqsUpTo(BlockLines, MaxLines)

\* Podtype names
PodNames ==
    { <<"N">>,    \* N
      <<"i", "n", "t", "3", "2", "_", "t">>    \* int32_t
    }

\* The optional fields of a podtype line: signs, sizes and a field that is neither
PodFields ==
    { <<"s">>,    \* s
      <<"u">>,    \* u
      <<"S">>,    \* S
      <<"U">>,    \* U
      <<"4">>,    \* 4
      <<"1", "6">>,    \* 16
      <<"x">>    \* x
    }

PodTag == <<"p", "o", "d">>

\* The fields of a line joined by single blanks
RECURSIVE Join(_)
Join(fields) ==
    IF Len(fields) = 1 THEN fields[1]
    ELSE fields[1] \o <<" ">> \o Join(Tail(fields))

\* Every podtype line of one to five fields
PodLines ==
    {PodTag}
    \cup {Join(<<PodTag, n>>) : n \in PodNames}
    \cup {Join(<<PodTag, n, a>>) : n \in PodNames, a \in PodFields}
    \cup {Join(<<PodTag, n, a, b>>) : n \in PodNames, a \in PodFields, b \in PodFields}
    \cup {Join(<<PodTag, n, a, b, a>>) : n \in {<<"N">>}, a \in {<<"s">>}, b \in {<<"4">>}}

PodInputs == {<<l>> : l \in PodLines}

\* Entry lines of a function block
FunctionEntries ==
    { <<"r", "v", " ", "i", "n", "t">>,    \* rv int
      <<"r", "v", " ", "u", "n", "s", "i", "g", "n", "e", "d", " ", "i", "n", "t">>,    \* rv unsigned int
      <<"r", "v">>,    \* rv
      <<"R", "V", " ", "i", "n", "t">>,    \* RV int
      <<"n", "r", " ", "t">>,    \* nr t
      <<"n", "r", " ", "F">>,    \* nr F
      <<"n", "r">>,    \* nr
      <<"n", "r", " ", "x">>,    \* nr x
      <<"n", "r", " ", "t", " ", "f">>,    \* nr t f
      <<"l", "i">>,    \* li
      <<"u", "r">>,    \* ur
      <<"c", "o", "n", "s", "t">>,    \* const
      <<"p", "u", "r", "e">>,    \* pure
      <<" ", " ", "l", "i">>,    \*   li
      <<"1", " ", "n", "n">>,    \* 1 nn
      <<"1", " ", "n", "b", " ", "n", "n", " ", "n", "u", " ", "v", "{", "0", ":", "1", "0", "}">>,    \* 1 nb nn nu v{0:10}
      <<"2", " ", "f", "m", "t", "{", "s", "c", "a", "n", "f", "}", " ", "m", "i", "n", "{", "a", "r", "g", "v", "a", "l", "u", "e", ",", "1", "}", " ", "n", "n", " ", "n", "u", " ", "s">>,    \* 2 fmt{scanf} min{argvalue,1} nn nu s
      <<"2", " ", "m", "i", "n", "{", "m", "u", "l", ",", "5", "}">>,    \* 2 min{mul,5}
      <<"2", " ", "m", "i", "n", "{", "m", "u", "l", ",", "5", ",", "6", "}">>,    \* 2 min{mul,5,6}
      <<"3", " ", "f", "m", "t">>,    \* 3 fmt
      <<"3", " ", "q">>,    \* 3 q
      <<"#", " ", "c">>,    \* # c
      <<"x">>    \* x
    }

\* Function header lines
FunctionHeaders ==
    { <<"f", "n", " ", "a">>,    \* fn a
      <<"F", "n", " ", "N", "a", "m", "e">>,    \* Fn Name
      <<"f", "n">>,    \* fn
      <<"f", "n", " ", "a", " ", "b">>    \* fn a b
    }

\* A function block of one or two entries, closed by end-of-input or by a
\* blank line
FunctionInputs ==
    {<<h, e>> : h \in FunctionHeaders, e \in FunctionEntries}
    \cup {<<h, e, <<>>, h>> : h \in {<<"f", "n", " ", "a">>}, e \in FunctionEntries}
    \cup {<<h, e, f>> : h \in {<<"f", "n", " ", "a">>}, e \in FunctionEntries,
                        f \in FunctionEntries}

\* Entry lines of an allocation block
AllocEntries ==
    { <<"a", "l", "l", "o", "c", " ", "a">>,    \* alloc a
      <<"a", "l", "l", "o", "c", " ", "i", "n", "i", "t", " ", "c">>,    \* alloc init c
      <<"a", "l", "l", "o", "c", " ", "i", "n", "i", "t">>,    \* alloc init
      <<"a", "l", "l", "o", "c">>,    \* alloc
      <<"a", "l", "l", "o", "c", " ", "a", " ", "b", " ", "c">>,    \* alloc a b c
      <<"A", "L", "L", "O", "C", " ", "a">>,    \* ALLOC a
      <<" ", " ", "a", "l", "l", "o", "c", " ", "a">>,    \*   alloc a
      <<"d", "e", "a", "l", "l", "o", "c", " ", "b">>,    \* dealloc b
      <<"d", "e", "a", "l", "l", "o", "c">>,    \* dealloc
      <<"d", "e", "a", "l", "l", "o", "c", " ", "b", " ", "c">>,    \* dealloc b c
      <<"f", "r", "e", "e", " ", "b">>    \* free b
    }

\* Allocation block header lines
AllocHeaders ==
    { <<"m", "e", "m">>,    \* mem
      <<"r", "e", "s">>,    \* res
      <<"M", "e", "m">>    \* Mem
    }

\* An allocation block of two entries, closed by end-of-input or by a blank line
AllocInputs ==
    {<<h, e, f>> : h \in AllocHeaders, e \in AllocEntries, f \in AllocEntries}
    \cup {<<h, e, f, <<>>, h>> : h \in {<<"m", "e", "m">>}, e \in AllocEntries,
                                 f \in AllocEntries}

\* Top-level lines
TopLines ==
    { <<"#", " ", "n", "o", "t", "e">>,    \* # note
      <<";", " ", "s", "k", "i", "p">>,    \* ; skip
      <<"d", "e", "f", " ", "K", " ", "4">>,    \* def K 4
      <<"d", "e", "f", " ", "K">>,    \* def K
      <<"d", "e", "f", " ", "V", " ", "a", " ", "<", " ", "b">>,    \* def V a < b
      <<"c", "o", "n", " ", "x">>,    \* con x
      <<" ", " ", " ">>,    \* '   '
      <<"\t">>,    \* '\t'
      <<" ", " ", "p", "o", "d", " ", "N">>,    \*   pod N
      <<"x">>,    \* x
      <<>>    \* ''
    }

TopInputs == SeqsUpTo(TopLines, 2)

\* The module docstring's function
FunctionExample ==
    << <<"F", "n", " ", "N", "a", "m", "e">>,    \* Fn Name
       <<" ", " ", " ", "l", "i">>,    \*    li
       <<" ", " ", " ", "u", "r">>,    \*    ur
       <<" ", " ", " ", "r", "v", " ", "i", "n", "t">>,    \*    rv int
       <<" ", " ", " ", "n", "r", " ", "f">>,    \*    nr f
       <<" ", " ", " ", "1", " ", "n", "b", " ", "n", "n", " ", "n", "u", " ", "v", "{", "0", ":", "1", "0", "}">>,    \*    1 nb nn nu v{0:10}
       <<" ", " ", " ", "2", " ", "f", "m", "t", "{", "s", "c", "a", "n", "f", "}", " ", "m", "i", "n", "{", "a", "r", "g", "v", "a", "l", "u", "e", ",", "1", "}", " ", "n", "n", " ", "n", "u", " ", "s">>    \*    2 fmt{scanf} min{argvalue,1} nn nu s
    >>

\* The module docstring's memory block
MemoryExample ==
    << <<"m", "e", "m">>,    \* mem
       <<" ", " ", "a", "l", "l", "o", "c", " ", "i", "n", "i", "t", " ", "c", "r", "e", "a", "t", "e", "_", "d", "a", "t", "a">>,    \*   alloc init create_data
       <<" ", " ", "d", "e", "a", "l", "l", "o", "c", " ", "f", "r", "e", "e", "_", "d", "a", "t", "a">>    \*   dealloc free_data
    >>

\* The module docstring's resource block, with the blank lines after it
ResourceExample ==
    << <<"r", "e", "s">>,    \* res
       <<" ", " ", "a", "l", "l", "o", "c", " ", "f", "o", "p", "e", "n">>,    \*   alloc fopen
       <<" ", " ", "d", "e", "a", "l", "l", "o", "c", " ", "f", "c", "l", "o", "s", "e">>,    \*   dealloc fclose
       <<>>,    \* ''
       <<>>    \* ''
    >>

\* The module docstring's block of a family of functions
FamilyExample ==
    << <<"m", "e", "m">>,    \* mem
       <<" ", " ", "a", "l", "l", "o", "c", " ", "m", "a", "l", "l", "o", "c">>,    \*   alloc malloc
       <<" ", " ", "a", "l", "l", "o", "c", " ", "i", "n", "i", "t", " ", "c", "a", "l", "l", "o", "c">>,    \*   alloc init calloc
       <<" ", " ", "d", "e", "a", "l", "l", "o", "c", " ", "f", "r", "e", "e">>    \*   dealloc free
    >>

\* The module docstring's podtype and define lines
OtherExamples ==
    << <<"p", "o", "d", " ", "i", "n", "t", "3", "2", "_", "t", " ", "s", " ", "4">>,    \* pod int32_t s 4
       <<"p", "o", "d", " ", "P", "o", "i", "n", "t", "2", "D">>,    \* pod Point2D
       <<"p", "o", "d", " ", "P", "o", "i", "n", "t", "2", "D", " ", "8">>,    \* pod Point2D 8
       <<"d", "e", "f", " ", "C", "O", "N", "S", "T", "A", "N", "T", " ", "4">>    \* def CONSTANT 4
    >>

\* The first element of a min{...} specifier: the four kinds, one in upper case, and a word that is no kind
MinsizeKinds ==
    { <<"a", "r", "g", "v", "a", "l", "u", "e">>,    \* argvalue
      <<"m", "u", "l">>,    \* mul
      <<"s", "i", "z", "e", "o", "f">>,    \* sizeof
      <<"s", "t", "r", "l", "e", "n">>,    \* strlen
      <<"M", "u", "l">>,    \* Mul
      <<"s", "i", "z", "e">>    \* size
    }

\* Operands of a min{...} specifier: digit strings and one that is not
MinsizeOperands ==
    { <<"5">>,    \* 5
      <<"1", "2">>,    \* 12
      <<"1", "x">>    \* 1x
    }

\* The elements of a specifier joined by commas
RECURSIVE JoinCommas(_)
JoinCommas(elements) ==
    IF Len(elements) = 1 THEN elements[1]
    ELSE elements[1] \o <<",">> \o JoinCommas(Tail(elements))

\* The most operands tried in a min{...} specifier
MaxOperands == 3

\* A function whose one argument carries one min{...} attribute, with every
\* kind and up to MaxOperands operands
MinsizeInputs ==
    {<<<<"f", "n", " ", "a">>,
       <<"1", " ", "m", "i", "n", "{">> \o JoinCommas(<<k>> \o ops) \o <<"}">>>> :
        k \in MinsizeKinds, ops \in SeqsUpTo(MinsizeOperands, MaxOperands)}

\* Define lines: values with each of the five reserved characters, with an entity, and with whitespace inside, before and after the value; lines with no value
DefineLines ==
    { <<"d", "e", "f", " ", "K", " ", "a", "<", "b">>,    \* def K a<b
      <<"d", "e", "f", " ", "K", " ", "x", "&", "&", "y">>,    \* def K x&&y
      <<"d", "e", "f", " ", "K", " ", "\"", "s", "\"">>,    \* def K "s"
      <<"d", "e", "f", " ", "K", " ", "'", "c", "'">>,    \* def K 'c'
      <<"d", "e", "f", " ", "K", " ", "a", " ", " ", "b">>,    \* def K a  b
      <<"d", "e", "f", " ", "K", " ", "4", " ">>,    \* def K 4 
      <<"d", "e", "f", " ", "K", " ", " ", "4">>,    \* def K  4
      <<"d", "e", "f", " ", "K", " ", "&", "l", "t", ";">>,    \* def K &lt;
      <<"d", "e", "f", " ", "K", "\t", "4", "\t", "x">>,    \* 'def K\t4\tx'
      <<"d", "e", "f", "i", "n", "e", " ", "X", " ", "1">>,    \* define X 1
      <<"d", "e", "f", " ", "K">>,    \* def K
      <<"d", "e", "f">>,    \* def
      <<"d", "e", "f", " ", "K", " ", " ">>,    \* def K  
      <<"d", "e", "f", " ", "V", " ", "\"", "a", "\"", " ", "<", " ", "'", "b", "'", " ", "&", " ", "c", " ", ">", " ", "d", " ">>    \* def V "a" < 'b' & c > d 
    }

\* A define line alone
DefineInputs == {<<d>> : d \in DefineLines}

\* Attribute tokens of an argument line: two flags, the two format kinds (which conflict), a range, and a word that is no attribute
AttributeTokens ==
    << <<"n", "n">>,    \* nn
       <<"n", "u">>,    \* nu
       <<"f", "m", "t", "{", "p", "r", "i", "n", "t", "f", "}">>,    \* fmt{printf}
       <<"f", "m", "t", "{", "s", "c", "a", "n", "f", "}">>,    \* fmt{scanf}
       <<"v", "{", "0", ":", "1", "0", "}">>,    \* v{0:10}
       <<"q">>    \* q
    >>

\* The most attributes tried on one argument line
MaxAttributes == 3

\* The fields of a line joined by single blanks
RECURSIVE JoinBlanks(_)
JoinBlanks(fields) ==
    IF Len(fields) = 1 THEN fields[1]
    ELSE fields[1] \o <<" ">> \o JoinBlanks(Tail(fields))

\* A function whose one argument carries up to MaxAttributes attributes,
\* repeated and conflicting ones included
ArgumentInputs ==
    {<<<<"f", "n", " ", "a">>, JoinBlanks(<<<<"1">>>> \o attributes)>> :
        attributes \in SeqsUpTo({AttributeTokens[i] : i \in 1..Len(AttributeTokens)}, MaxAttributes)}

\* Comment lines of both kinds, bare, indented, and with blanks after the text
CommentLines ==
    { <<"#", " ", "c">>,    \* # c
      <<";", " ", "c">>,    \* ; c
      <<"#">>,    \* #
      <<";">>,    \* ;
      <<" ", " ", "#", " ", "c">>,    \*   # c
      <<" ", " ", ";", " ", "c">>,    \*   ; c
      <<"#", "c", " ", " ">>    \* #c  
    }

\* A comment line at top level (first, and after a closed block) and inside
\* a function block and an allocation block, first and after an entry
CommentInputs ==
    UNION {{<<c>>,
            <<<<"f", "n", " ", "a">>, <<>>, c>>,
            <<<<"f", "n", " ", "a">>, c>>,
            <<<<"f", "n", " ", "a">>, <<"p", "u", "r", "e">>, c>>,
            <<<<"m", "e", "m">>, c>>,
            <<<<"r", "e", "s">>, <<"a", "l", "l", "o", "c", " ", "a">>, c>>} : c \in CommentLines}

\* First fields of an argument line: positions from 1, zero, and fields that start with a digit and are no number
PositionFields ==
    { <<"1">>,    \* 1
      <<"2">>,    \* 2
      <<"1", "0">>,    \* 10
      <<"0">>,    \* 0
      <<"0", "0">>,    \* 00
      <<"1", "x">>,    \* 1x
      <<"2", "n", "n">>    \* 2nn
    }

\* A function whose one argument line starts with each of these fields, alone
\* and with an attribute
PositionInputs ==
    UNION {{<<<<"f", "n", " ", "a">>, p>>,
            <<<<"f", "n", " ", "a">>, p \o <<" ", "n", "n">>>>} : p \in PositionFields}

ExampleInputs ==
    {FunctionExample, MemoryExample, ResourceExample, FamilyExample, OtherExamples,
     FunctionExample \o <<<<>>>> \o MemoryExample \o <<<<>>>> \o OtherExamples}

Inputs ==
    BlockInputs \cup PodInputs \cup FunctionInputs \cup AllocInputs \cup TopInputs
    \cup ExampleInputs \cup MinsizeInputs \cup DefineInputs
    \cup ArgumentInputs \cup CommentInputs \cup PositionInputs

-----------------------------------------------------------------------------
(* The specification.                                                      *)

\* Parser.__init__, called on the lines read from the input file
Init ==
    /\ lines \in Inputs
    /\ line_no = 0
    /\ out = <<>>
    /\ pc = "begin"
    /\ error = "none"
    /\ line = <<>>
    /\ composed = ""
    /\ end_alloc = ""
    /\ has_alloc = FALSE
    /\ has_dealloc = FALSE
    /\ reads = [i \in 1..Len(lines) |-> <<>>]

Next ==
    \/ WriteFileBegin
    \/ ParseLine
    \/ ParseFunctionStep
    \/ ParseAllocStep
    \/ DriverAdvance
    \/ WriteFileEnd

Spec == Init /\ [][Next]_vars

-----------------------------------------------------------------------------
(* The properties.                                                         *)

\* The last string written to out_file
LastWrite == out[Len(out)]

\* parse_alloc is about to close its block: the next line does not exist
AllocAtEof == pc = "alloc" /\ line_no + 1 >= Len(lines)

\* parse_alloc is about to close its block: the next line is blank
AllocAtBlank ==
    /\ pc = "alloc"
    /\ line_no + 1 < Len(lines)
    /\ Strip(lines[line_no + 2]) = <<>>

\* C1: an allocation block that reaches its close, by a blank line or by
\* end-of-input, without an alloc entry or without a dealloc entry ends in a
\* ParseError, and the step that closes it writes nothing.
C1_IncompleteAllocBlockFails ==
    [][((AllocAtEof \/ AllocAtBlank) /\ ~(has_alloc /\ has_dealloc))
         => (pc' = "failed" /\ error' = "ParseError" /\ out' = out)]_vars

\* A memory block of two alloc entries and no dealloc entry was closed by a
\* blank line and rejected.
C1_Witness ==
    /\ pc = "failed"
    /\ error = "ParseError"
    /\ has_alloc /\ ~has_dealloc
    /\ composed = IndentFunction \o "<memory>\n"
                  \o IndentFunctionEntry \o "<alloc init=\"false\">a</alloc>\n"
                  \o IndentFunctionEntry \o "<alloc init=\"false\">a</alloc>\n"
    /\ line_no < Len(lines)
    /\ lines[line_no + 1] = <<>>
    /\ Len(out) = 1

\* C2: every rejected input is rejected with ParseError.
C2_OnlyParseError == pc = "failed" => error = "ParseError"

\* C3: fail-fast.  The step that raises writes nothing; once an exception has
\* been raised the cursor, the output and the record of lines read stay as they
\* are; and the epilogue is never written after a failure.
C3_FailFast ==
    [][/\ error' # "none" => out' = out
       /\ error # "none" => UNCHANGED <<line_no, out, reads, error>>
       /\ error' # "none" => \A i \in 1..Len(out') : out'[i] # write_file_end]_vars

\* A pass failed after it had streamed a construct, with input lines left.
C3_Witness ==
    /\ pc = "failed"
    /\ error = "ParseError"
    /\ Len(out) >= 2
    /\ line_no + 1 < Len(lines)

\* parse_line handed the dispatched line to a block parser, which advances the
\* cursor at least once
DelegateAdvanced == determine_line_type(line) \in {"FUNCTION", "MEM_ALLOC", "RES_ALLOC"}

\* C4 as stated: the driver advances the cursor by one only when the delegate
\* did not advance it, and leaves it where a block parser stopped.
C4_AdvanceUnlessDelegateAdvanced ==
    [][pc = "advance"
         => line_no' = (IF DelegateAdvanced THEN line_no ELSE line_no + 1)]_vars

\* C4 as amended: the driver advances the cursor by exactly one after every
\* dispatched line, whether or not the delegate advanced it; the line on which
\* a block parser stopped was read by that block parser and is passed over.
C4_DriverAlwaysAdvances ==
    [][pc = "advance"
         => /\ line_no' = line_no + 1
            /\ pc' = "driver"
            /\ (DelegateAdvanced /\ line_no < Len(lines))
                 => reads[line_no + 1] \in {<<"parse_function">>, <<"parse_alloc">>}]_vars

\* A block parser stopped on a blank line that is not the last line, and the
\* driver is about to advance.
C4_Witness ==
    /\ pc = "advance"
    /\ DelegateAdvanced
    /\ line_no + 1 < Len(lines)
    /\ lines[line_no + 1] = <<>>

\* C5: the cursor never decreases, and no input line is read more than once.
C5_CursorNeverRewound ==
    [][/\ line_no' >= line_no
       /\ \A i \in 1..Len(lines) : Len(reads'[i]) <= 1]_vars

\* A pass ended in which the driver, the function block parser and the
\* allocation block parser each read lines.
C5_Witness ==
    /\ pc = "done"
    /\ \E i \in 1..Len(lines) : reads[i] = <<"parse_lines">>
    /\ \E i \in 1..Len(lines) : reads[i] = <<"parse_function">>
    /\ \E i \in 1..Len(lines) : reads[i] = <<"parse_alloc">>

\* parse_function is about to close its block: the next line does not exist
FunctionAtEof == pc = "function" /\ line_no + 1 >= Len(lines)

\* The pass succeeded and the epilogue is the last thing written
Succeeded == pc = "done" /\ error = "none" /\ LastWrite = write_file_end

\* Once parse_line has returned with the cursor at the end of the input, the
\* driver takes its advance, leaves its loop and writes the epilogue: each of
\* these steps can be taken, none raises and none writes anything else.
EndOfInputSucceeds ==
    /\ [][(pc = "advance" /\ line_no >= Len(lines))
            => (pc' = "driver" /\ line_no' > Len(lines) /\ out' = out
                /\ error' = "none")]_vars
    /\ [][(pc = "driver" /\ line_no >= Len(lines))
            => (Succeeded' /\ out' = Append(out, write_file_end))]_vars
    /\ [](pc = "advance" => ENABLED DriverAdvance)
    /\ []((pc = "driver" /\ line_no >= Len(lines)) => ENABLED WriteFileEnd)

\* C6: a function block whose entries run up to the end of the input is closed
\* there: the closing step writes the buffered element with its closing tag
\* and raises nothing, and from there the pass runs on to success: the driver
\* advances, leaves its loop and writes the epilogue.
C6_FunctionClosedByEof ==
    /\ [][FunctionAtEof
            => /\ out' = Append(out, composed \o IndentFunction \o "</function>\n")
               /\ pc' = "advance"
               /\ error' = "none"]_vars
    /\ [](FunctionAtEof => ENABLED ParseFunctionStep)
    /\ EndOfInputSucceeds

\* A pass succeeded whose last line is an entry that parse_function read.
C6_Witness ==
    /\ Succeeded
    /\ Len(lines) >= 2
    /\ reads[Len(lines)] = <<"parse_function">>
    /\ Strip(lines[Len(lines)]) # <<>>

\* C7: an allocation block with an alloc and a dealloc entry is closed by
\* end-of-input as it is by a blank line: either way the closing step writes
\* the buffered entries followed by the closing tag and raises nothing; closed
\* by end-of-input, the pass runs on to success: the driver advances, leaves
\* its loop and writes the epilogue.
C7_AllocClosedByEof ==
    /\ [][((AllocAtEof \/ AllocAtBlank) /\ has_alloc /\ has_dealloc)
            => /\ out' = Append(out, composed \o end_alloc)
               /\ pc' = "advance"
               /\ error' = "none"]_vars
    /\ [](AllocAtEof => ENABLED ParseAllocStep)
    /\ EndOfInputSucceeds

\* A pass succeeded whose last line is an entry that parse_alloc read.
C7_Witness ==
    /\ Succeeded
    /\ Len(lines) >= 3
    /\ reads[Len(lines)] = <<"parse_alloc">>
    /\ Strip(lines[Len(lines)]) # <<>>

\* The fields of the line that parse_line dispatched
Fields == Split(line, " ")

\* parse_line has dispatched a podtype line of four fields and is done with it
PodLineOfFourFields ==
    /\ pc \in {"advance", "failed"}
    /\ determine_line_type(line) = "PODTYPE"
    /\ Len(Fields) = 4
    /\ Str(Lower(Fields[1])) = "pod"

IsSign(field) == Str(Lower(field)) \in {"s", "u"}

\* The attribute that a sign or size field stands for
PodAttribute(field) ==
    IF IsSign(field) THEN " sign=\"" \o Str(Lower(field)) \o "\""
    ELSE " size=\"" \o Str(field) \o "\""

PodElement(name, attributes) ==
    IndentFunction \o "<podtype name=\"" \o Str(name) \o "\"" \o attributes \o "/>\n"

\* C8: a podtype line with a sign and a size, in either order and with the
\* sign letter in either case, is accepted and emits the element with sign
\* the lower-cased letter and size the digit string.
C8_PodSignAndSizeInEitherOrder ==
    (/\ PodLineOfFourFields
     /\ \/ IsSign(Fields[3]) /\ IsDigit(Fields[4])
        \/ IsDigit(Fields[3]) /\ IsSign(Fields[4]))
    => /\ pc = "advance"
       /\ LastWrite \in
            {PodElement(Fields[2], PodAttribute(Fields[3]) \o PodAttribute(Fields[4])),
             PodElement(Fields[2], PodAttribute(Fields[4]) \o PodAttribute(Fields[3]))}

\* C9: a podtype line whose two optional fields are both "s" or "u", or both
\* digit strings, is accepted, and the attribute written last carries the
\* value of the second field (whether or not the first one is written too).
C9_SecondPodFieldWins ==
    (/\ PodLineOfFourFields
     /\ \/ Str(Fields[3]) \in {"s", "u"} /\ Str(Fields[4]) \in {"s", "u"}
        \/ IsDigit(Fields[3]) /\ IsDigit(Fields[4]))
    => /\ pc = "advance"
       /\ LastWrite \in
            {PodElement(Fields[2], PodAttribute(Fields[3]) \o PodAttribute(Fields[4])),
             PodElement(Fields[2], PodAttribute(Fields[4]))}

\* The entry line that parse_function reads next
NextEntry == Strip(lines[line_no + 2])

\* C10: in a function block an entry "rv <type>" adds the self-closing element
\* <returnValue type="<type>"/> to the block, and an "rv" entry with no type
\* is a ParseError.
C10_ReturnValueSelfClosing ==
    [][(/\ pc = "function"
        /\ line_no + 1 < Len(lines)
        /\ determine_function_line_type(NextEntry) = "RETURN_TYPE")
         => IF Len(SplitMax(NextEntry, " ", 1)) = 2
            THEN composed' = composed \o IndentFunctionEntry \o "<returnValue type=\""
                             \o Str(SplitMax(NextEntry, " ", 1)[2]) \o "\"/>\n"
            ELSE pc' = "failed" /\ error' = "ParseError"]_vars


\* parse_function reads an argument line next whose one attribute is a
\* min{...} specifier
MinsizeEntryNext ==
    /\ pc = "function"
    /\ line_no + 1 < Len(lines)
    /\ determine_function_line_type(NextEntry) = "ARGUMENT"
    /\ Len(Split(NextEntry, " ")) = 2
    /\ determine_argument_attribute_type(Split(NextEntry, " ")[2]) = "MIN_SIZE"
    /\ retrieve_match_between_braces(Split(NextEntry, " ")[2]).found

\* The comma-separated elements of that specifier
MinsizeElements == Split(retrieve_match_between_braces(Split(NextEntry, " ")[2]).text, ",")

\* The specifier has the arity of its kind and all-digit operands
MinsizeWellFormed ==
    LET kind == Str(Lower(MinsizeElements[1]))
    IN  /\ kind \in {"argvalue", "mul", "sizeof", "strlen"}
        /\ Len(MinsizeElements) = (IF kind = "mul" THEN 3 ELSE 2)
        /\ \A i \in 2..Len(MinsizeElements) : IsDigit(MinsizeElements[i])

\* C11: a min{...} specifier is accepted only with the arity of its kind (three
\* elements for mul, two for argvalue, sizeof and strlen) and all-digit
\* operands; with any other element count or operand it is a ParseError.
C11_MinsizeExactArity ==
    [][MinsizeEntryNext
         => IF MinsizeWellFormed
            THEN pc' = "function" /\ error' = "none"
            ELSE pc' = "failed" /\ error' = "ParseError"]_vars


\* parse_alloc reads an entry next, and the fields of that entry
AllocEntryNext == pc = "alloc" /\ line_no + 1 < Len(lines)

EntryIsAlloc == determine_allocation_line_type(NextEntry) = "ALLOC_FUNC"

EntryIsDealloc == determine_allocation_line_type(NextEntry) = "DEALLOC_FUNC"

EntryFields == Split(NextEntry, " ")

\* C12: in an allocation block an alloc entry whose second field is "init"
\* needs a third field and adds <alloc init="true"> naming the third field, any
\* other accepted alloc entry adds <alloc init="false"> naming its second
\* field, an accepted dealloc entry has exactly two fields and adds <dealloc>
\* naming the second, each entry is added after the entries read before it,
\* and the block is written as the entries in that order and the closing tag.
C12_AllocEntriesInOrder ==
    /\ [][(AllocEntryNext /\ EntryIsAlloc /\ Len(EntryFields) = 2
             /\ Str(EntryFields[2]) = "init")
            => pc' = "failed" /\ error' = "ParseError"]_vars
    /\ [][(AllocEntryNext /\ pc' = "alloc")
            => IF EntryIsAlloc
               THEN IF Str(EntryFields[2]) = "init"
                    THEN /\ Len(EntryFields) = 3
                         /\ composed' = composed \o IndentFunctionEntry
                               \o "<alloc init=\"true\">" \o Str(EntryFields[3]) \o "</alloc>\n"
                    ELSE composed' = composed \o IndentFunctionEntry
                               \o "<alloc init=\"false\">" \o Str(EntryFields[2]) \o "</alloc>\n"
               ELSE /\ EntryIsDealloc
                    /\ Len(EntryFields) = 2
                    /\ composed' = composed \o IndentFunctionEntry
                          \o "<dealloc>" \o Str(EntryFields[2]) \o "</dealloc>\n"]_vars
    /\ [][(pc = "alloc" /\ pc' = "advance")
            => out' = Append(out, composed \o end_alloc)]_vars

\* The docstring's family block (alloc malloc, alloc init calloc, dealloc
\* free) has been written with its three entries in the order read
C12_Witness ==
    /\ lines = FamilyExample
    /\ pc = "done"
    /\ out[2] = "    <memory>\n"
                \o "        <alloc init=\"false\">malloc</alloc>\n"
                \o "        <alloc init=\"true\">calloc</alloc>\n"
                \o "        <dealloc>free</dealloc>\n"
                \o "    </memory>\n"


\* What is left of a line after its first field and the whitespace around it
DropField(s) ==
    LET t == LStrip(s)
        i == FindSpace(t, 1)
    IN  IF i = 0 THEN <<>> ELSE LStrip(SubSeq(t, i + 1, Len(t)))

\* The first field of a line
FirstField(s) ==
    LET t == LStrip(s)
        i == FindSpace(t, 1)
    IN  IF i = 0 THEN t ELSE SubSeq(t, 1, i - 1)

\* The XML entity of a reserved character; any other character is itself
EntityOf(c) ==
    CASE c = "<" -> <<"&", "l", "t", ";">>
      [] c = ">" -> <<"&", "g", "t", ";">>
      [] c = "&" -> <<"&", "a", "m", "p", ";">>
      [] c = "'" -> <<"&", "a", "p", "o", "s", ";">>
      [] c = "\"" -> <<"&", "q", "u", "o", "t", ";">>
      [] OTHER -> <<c>>

\* A text with each of its characters replaced by its entity, once
RECURSIVE EntitiesOf(_)
EntitiesOf(s) == IF s = <<>> THEN <<>> ELSE EntityOf(Head(s)) \o EntitiesOf(Tail(s))

\* parse_line dispatches a define line next; its name and the rest of the
\* line after the name
DefineNext ==
    /\ pc = "driver"
    /\ line_no < Len(lines)
    /\ determine_line_type(lines[line_no + 1]) = "DEFINE"

DefineName == FirstField(DropField(lines[line_no + 1]))

DefineRest == DropField(DropField(lines[line_no + 1]))

\* The define element with the given value attribute
DefineElement(value) ==
    IndentFunction \o "<define name=\"" \o Str(DefineName) \o "\" value=\""
        \o Str(value) \o "\"/>\n"

ArgumentEntryNext ==
    /\ pc = "function"
    /\ line_no + 1 < Len(lines)
    /\ determine_function_line_type(NextEntry) = "ARGUMENT"

\* The attribute tokens of that line: its fields after the argument number
ArgumentAttributes == Tail(Split(NextEntry, " "))

\* The fragments of the tokens, one after the other in the order of the tokens
RECURSIVE FragmentsInOrder(_)
FragmentsInOrder(tokens) ==
    IF tokens = <<>> THEN ""
    ELSE compose_attribute_string(Head(tokens)).str \o FragmentsInOrder(Tail(tokens))

\* C14: an accepted argument line adds a single <arg> element that holds, for
\* every attribute token of the line, exactly one fragment, the fragments in
\* the order of the tokens; a token that repeats or conflicts with an earlier
\* one has its own fragment like any other.
C14_OneFragmentPerToken ==
    [][(ArgumentEntryNext /\ pc' = "function")
         => /\ \A i \in 1..Len(ArgumentAttributes) :
                 /\ compose_attribute_string(ArgumentAttributes[i]).err = "none"
                 /\ Len(compose_attribute_string(ArgumentAttributes[i]).str) > 0
            /\ composed' = composed \o IndentFunctionEntry
                  \o "<arg nr=\"" \o Str(Split(NextEntry, " ")[1]) \o "\">"
                  \o FragmentsInOrder(ArgumentAttributes)
                  \o "</arg>\n"]_vars

\* The argument line "1 fmt{printf} fmt{scanf} fmt{printf}", whose attributes
\* conflict and repeat, has been composed with its three fragments
C14_Witness ==
    /\ pc = "function"
    /\ Len(lines) = 2
    /\ line_no = 1
    /\ Str(lines[2]) = "1 fmt{printf} fmt{scanf} fmt{printf}"
    /\ composed = "    <function name=\"a\">\n"
                  \o "        <arg nr=\"1\"><formatstr type=\"printf\"/>"
                  \o "<formatstr type=\"scanf\"/><formatstr type=\"printf\"/></arg>\n"


\* parse_line dispatches a function header next
HeaderNext ==
    /\ pc = "driver"
    /\ line_no < Len(lines)
    /\ determine_line_type(lines[line_no + 1]) = "FUNCTION"

IsComment(l) == l # <<>> /\ Head(l) \in {"#", ";"}

\* parse_line dispatches the line at the cursor next
TopLevelNext == pc = "driver" /\ line_no < Len(lines)

\* C16: a comment line ("#" or ";") read while a function block or an
\* allocation block is open is a ParseError; at top level a "#" line is
\* written as a markup comment and a ";" line writes nothing.
C16_CommentsOnlyOutsideBlocks ==
    /\ [][(pc \in {"function", "alloc"} /\ line_no + 1 < Len(lines) /\ IsComment(NextEntry))
            => pc' = "failed" /\ error' = "ParseError"]_vars
    /\ [][(TopLevelNext /\ IsComment(lines[line_no + 1]))
            => /\ pc' = "advance"
               /\ error' = "none"
               /\ out' = IF Head(lines[line_no + 1]) = "#"
                         THEN Append(out, IndentFunction \o "<!-- "
                                     \o Str(Strip(Tail(lines[line_no + 1]))) \o " -->\n")
                         ELSE out]_vars

\* A comment line read as the second entry of a function block has ended
\* the pass
C16_Witness ==
    /\ pc = "failed"
    /\ error = "ParseError"
    /\ Len(lines) = 3
    /\ line_no = 2
    /\ IsComment(Strip(lines[3]))
    /\ reads[3] = <<"parse_function">>


\* Every line of the input has been read by one of the parsing routines
AllLinesRead == \A i \in 1..Len(lines) : reads[i] # <<>>

\* C17: the prologue is the first write and is written once; every later step
\* leaves the output alone or appends one write to it, so the writes stand in
\* the order in which the cursor reached their lines; the epilogue is written
\* once, as the last write, exactly by the passes that read every input line
\* without an exception.
C17_PrologueEmissionsEpilogue ==
    /\ [](pc # "begin"
            => /\ out[1] = write_file_begin
               /\ \A i \in 2..Len(out) : out[i] # write_file_begin)
    /\ [][pc # "begin"
            => \/ out' = out
               \/ Len(out') = Len(out) + 1 /\ SubSeq(out', 1, Len(out)) = out]_vars
    /\ [](\A i \in 1..(Len(out) - 1) : out[i] # write_file_end)
    /\ [](pc = "done" <=> (out # <<>> /\ LastWrite = write_file_end))
    /\ [](pc = "done" => error = "none" /\ line_no >= Len(lines) /\ AllLinesRead)
    /\ [][(pc = "driver" /\ line_no >= Len(lines))
            => pc' = "done" /\ out' = Append(out, write_file_end)]_vars

\* A pass over three lines or more has ended with the prologue, the writes of
\* two constructs and the epilogue
C17_Witness ==
    /\ pc = "done"
    /\ Len(lines) >= 3
    /\ Len(out) >= 4
    /\ out[1] = write_file_begin
    /\ out[2] # out[3]
    /\ LastWrite = write_file_end


\* A function block or an allocation block is open
BlockOpen == pc \in {"function", "alloc"}

\* The closing tag of the open block
ClosingTag == IF pc = "function" THEN IndentFunction \o "</function>\n" ELSE end_alloc

\* C18: opening a block and reading its entries write nothing; the close of
\* the block writes the whole block, header, entries and closing tag, as one
\* write; a block that ends in an exception, at an entry or at its close,
\* writes nothing, so the output holds no part of an unfinished block.
C18_BlockWrittenAtClose ==
    /\ [][(pc = "driver" /\ pc' \in {"function", "alloc"}) => out' = out]_vars
    /\ [][(BlockOpen /\ pc' \in {"function", "alloc", "failed"}) => out' = out]_vars
    /\ [][(BlockOpen /\ pc' = "advance")
            => out' = Append(out, composed \o ClosingTag)]_vars

\* A function block whose first entry was composed and whose second entry
\* raised has left only the prologue in the output
C18_Witness ==
    /\ pc = "failed"
    /\ Len(lines) = 3
    /\ line_no = 2
    /\ reads[2] = <<"parse_function">>
    /\ reads[3] = <<"parse_function">>
    /\ composed = "    <function name=\"a\">\n        <pure/>\n"
    /\ out = <<write_file_begin>>


\* A function block is open and no entry of it has been read: the cursor is
\* still on the header
NoEntryRead == pc = "function" /\ reads[line_no + 1] = <<"parse_lines">>

\* The line after the cursor ends the block: it is blank, or there is none
BlockEndsNext == line_no + 1 >= Len(lines) \/ NextEntry = <<>>

\* C19: a function block with no entry between its header and the blank line
\* or the end of the input writes exactly the opening tag with the name
\* attribute and, directly after it, the closing tag.
C19_EmptyFunctionBlock ==
    [][(NoEntryRead /\ BlockEndsNext)
         => /\ pc' = "advance"
            /\ out' = Append(out, "    <function name=\""
                                  \o Str(Split(lines[line_no + 1], " ")[2]) \o "\">\n"
                                  \o "    </function>\n")]_vars

\* The block "fn a" ended by a blank line has been written
C19_Witness ==
    /\ pc = "advance"
    /\ Len(lines) = 2
    /\ Str(lines[1]) = "fn a"
    /\ lines[2] = <<>>
    /\ out = <<write_file_begin, "    <function name=\"a\">\n    </function>\n">>


\* C21: whenever the pass has ended in a reported parse failure (a ParseError),
\* the cursor is the index of an input line, 0 <= line_no < len(lines), so the
\* reported line number line_no + 1 is that of an existing line, also when the
\* failure is an allocation block cut short by the end of the input.
C21_FailureCursorOnALine ==
    (pc = "failed" /\ error = "ParseError") => (0 <= line_no /\ line_no < Len(lines))


\* How far the place of control is from the end of the current pass of the
\* driver loop
StepsLeft ==
    CASE pc = "begin" -> 3
      [] pc = "driver" -> 2
      [] pc \in {"function", "alloc", "advance"} -> 1
      [] pc \in {"done", "failed"} -> 0

\* A variant of the pass: the cursor values still ahead, each worth more than
\* the places of control of one pass of a loop
Variant == 4 * (Len(lines) + 1 - line_no) + StepsLeft

\* The pass has ended, in success or in an exception
Terminated == pc \in {"done", "failed"}

\* C22: the pass over any input ends, in success or in a failure: every pass
\* of parse_function's and of parse_alloc's loop adds one to the cursor, every
\* pass of the driver loop ends by adding one to it, the cursor never exceeds
\* len(lines) + 1, and every step of the parser lowers a variant that is never
\* negative, so no pass takes more than 4 * (len(lines) + 1) + 3 steps.
C22_PassTerminates ==
    /\ [](0 <= line_no /\ line_no <= Len(lines) + 1)
    /\ [](Variant >= 0)
    /\ [][Variant' < Variant]_vars
    /\ [][BlockOpen => line_no' = line_no + 1]_vars
    /\ [][pc = "advance" => line_no' = line_no + 1 /\ pc' = "driver"]_vars
    /\ [][pc = "driver" => (pc' \in {"advance", "function", "alloc"} \/ Terminated')]_vars
    /\ [][BlockOpen => (pc' \in {"advance", "function", "alloc"} \/ Terminated')]_vars

\* A pass over an input of MaxLines lines whose last block was closed by the
\* end of the input has ended in success with the cursor at len(lines) + 1
C22_Witness ==
    /\ pc = "done"
    /\ Len(lines) = MaxLines
    /\ line_no = Len(lines) + 1


\* The line at the cursor without the whitespace around it, and its type
TrimmedLine == Strip(lines[line_no + 1])

TrimmedType == determine_line_type(TrimmedLine)

\* C23: a line is classified by what is left of it after trimming, at top
\* level as inside blocks: a whitespace-only line at top level is written as a
\* blank line, a top-level line whose prefix follows whitespace is dispatched
\* by that prefix and not rejected, and a whitespace-only line inside a block
\* ends the block.
C23_ClassifiedAfterTrimming ==
    /\ [][TopLevelNext
            => /\ TrimmedType = "EMPTY" => (pc' = "advance" /\ out' = Append(out, "\n"))
               /\ TrimmedType \in {"COMMENT_EXCLUDE", "CONTAINER"}
                     => (pc' = "advance" /\ out' = out)
               /\ TrimmedType = "COMMENT_INCLUDE"
                     => (pc' = "advance" /\ Len(out') = Len(out) + 1)
               /\ TrimmedType \in {"MEM_ALLOC", "RES_ALLOC"} => pc' = "alloc"
               /\ (TrimmedType = "FUNCTION" /\ Len(Split(TrimmedLine, " ")) = 2)
                     => pc' = "function"
               /\ (TrimmedType = "PODTYPE" /\ parse_podtype(TrimmedLine).err = "none")
                     => pc' = "advance"
               /\ (TrimmedType = "DEFINE" /\ parse_define(TrimmedLine).err = "none")
                     => pc' = "advance"]_vars
    /\ [][(BlockOpen /\ line_no + 1 < Len(lines) /\ NextEntry = <<>>)
            => pc' \in {"advance", "failed"}]_vars


\* The first field of the argument line read next
PositionField == Split(NextEntry, " ")[1]

\* A string of decimal digits that denotes an integer >= 1
IsPosition(s) == IsDigit(s) /\ \E i \in 1..Len(s) : s[i] # "0"

\* C24: the nr attribute of every <arg> element is a string of decimal digits
\* denoting an integer >= 1: an argument line is accepted only with such a
\* first field, and with the first field "0" or one that is not all digits
\* (like "1x") it is a ParseError.
C24_ArgumentPositionFromOne ==
    [][ArgumentEntryNext
         => /\ pc' = "function" => IsPosition(PositionField)
            /\ ~IsPosition(PositionField) => (pc' = "failed" /\ error' = "ParseError")]_vars

====
